---- MODULE Spec2Model ----
(***************************************************************************)
(* reSID filter (filter.cc): the register decode of the four filter        *)
(* registers, the derivation of the two coefficients w0 and _1024_div_Q,   *)
(* chip model selection with the rebuild of the FC -> cutoff frequency     *)
(* table f0, and reset.                                                    *)
(***************************************************************************)
EXTENDS Integers, Sequences, FiniteSets

VARIABLES enabled, voice_DC, f0_points, f0_count, f0,
          fc, res, filtex, filt3_filt2_filt1, voice3off, hp_bp_lp, vol,
          Vhp, Vbp, Vlp, Vnf, w0, _1024_div_Q, call

vars == <<enabled, voice_DC, f0_points, f0_count, f0,
          fc, res, filtex, filt3_filt2_filt1, voice3off, hp_bp_lp, vol,
          Vhp, Vbp, Vlp, Vnf, w0, _1024_div_Q, call>>

regs == <<fc, res, filtex, filt3_filt2_filt1, voice3off, hp_bp_lp, vol>>

Vstate == <<Vhp, Vbp, Vlp, Vnf>>

variant == <<voice_DC, f0_points, f0_count, f0>>

-----------------------------------------------------------------------------
(* Bounds of the model. *)

\* Register write arguments are drawn from 0..MaxArg. reg8 is an unsigned
\* int, so an argument may be wider than 8 bits.
MaxArg == 511

\* Magnitude of the filter state samples left behind by clock().
MaxSample == 1

-----------------------------------------------------------------------------
(* C integer operators on non-negative ints. *)

RECURSIVE And(_, _)
And(a, b) ==
  IF a = 0 \/ b = 0 THEN 0
  ELSE (a % 2) * (b % 2) + 2 * And(a \div 2, b \div 2)

RECURSIVE Or(_, _)
Or(a, b) ==
  IF a = 0 THEN b
  ELSE IF b = 0 THEN a
  ELSE (IF a % 2 = 1 \/ b % 2 = 1 THEN 1 ELSE 0) + 2 * Or(a \div 2, b \div 2)

RECURSIVE Pow2(_)
Pow2(n) == IF n = 0 THEN 1 ELSE 2 * Pow2(n - 1)

\* a << n; the arguments of the model stay far below the 32 bit width.
Shl(a, n) == a * Pow2(n)

\* a >> n
Shr(a, n) == a \div Pow2(n)

\* C's integer division, which truncates toward zero.
CDiv(a, b) == IF a >= 0 THEN a \div b ELSE -((-a) \div b)

-----------------------------------------------------------------------------
(* The two tables of interpolation points, as <<FC, f>> pairs. *)

f0_6581 ==
  << <<   0,   220>>, << 128,   230>>, << 256,   250>>, << 384,   300>>,
     << 512,   420>>, << 640,   780>>, << 768,  1600>>, << 832,  2300>>,
     << 896,  3200>>, << 960,  4300>>, << 992,  5000>>, <<1008,  5400>>,
     <<1016,  5700>>, <<1023,  6000>>, <<1023,  6000>>, <<1024,  4600>>,
     <<1024,  4600>>, <<1032,  4800>>, <<1056,  5300>>, <<1088,  6000>>,
     <<1120,  6600>>, <<1152,  7200>>, <<1280,  9500>>, <<1408, 12000>>,
     <<1536, 14500>>, <<1664, 16000>>, <<1792, 17100>>, <<1920, 17700>>,
     <<2047, 18000>> >>

f0_8580 ==
  << <<   0,     0>>, << 128,   800>>, << 256,  1600>>, << 384,  2500>>,
     << 512,  3300>>, << 640,  4100>>, << 768,  4800>>, << 896,  5600>>,
     <<1024,  6500>>, <<1152,  7500>>, <<1280,  8400>>, <<1408,  9200>>,
     <<1536,  9800>>, <<1664, 10500>>, <<1792, 11000>>, <<1920, 11700>>,
     <<2047, 12500>> >>

\* The chip models.
chip_model == {"MOS6581", "MOS8580"}

\* The index range of sound_sample f0[2048].
FC == 0 .. 2047

\* f0_points is a pointer to one of the static tables; the model holds the
\* name of the table pointed to: "f0_6581" or "f0_8580".

-----------------------------------------------------------------------------
(* Curve expansion: interpolate() writing through fc_plotter() into f0.     *)
(* Each pair of consecutive points is one segment, drawn in the order of    *)
(* the points, one sample per integer FC (resolution 1.0) from the          *)
(* segment's first point to its second point inclusive and through both     *)
(* points exactly.  Two points with the same FC draw nothing, so at that FC *)
(* the later point's frequency is the one the following segment leaves.     *)

\* The last segment of points that draws a sample at x; 0 when none does.
segment(points, x) ==
  LET drawn == {i \in 1 .. Len(points) - 1 :
                  /\ points[i][1] < points[i + 1][1]
                  /\ points[i][1] <= x
                  /\ x <= points[i + 1][1]}
  IN  IF drawn = {} THEN 0 ELSE CHOOSE i \in drawn : \A j \in drawn : j <= i

\* The sample segment i draws at x, truncated to a sound_sample.
sample(points, i, x) ==
  points[i][2]
    + ((points[i + 1][2] - points[i][2]) * (x - points[i][1]))
        \div (points[i + 1][1] - points[i][1])

\* What expanding a sequence of points draws: drawn[x] tells whether a sample
\* is drawn at x, y[x] is that sample, and full tells whether every FC gets one.
curve(points) ==
  [full  |-> \A x \in FC : segment(points, x) # 0,
   drawn |-> [x \in FC |-> segment(points, x) # 0],
   y     |-> [x \in FC |->
                LET i == segment(points, x)
                IN  IF i = 0 THEN 0 ELSE sample(points, i, x)]]

curve_6581 == curve(f0_6581)

curve_8580 == curve(f0_8580)

\* PointPlotter<sound_sample>(f0) as the sink of the drawn samples: f with
\* the drawn samples stored and every other entry left as it was.  A curve
\* that draws at every FC leaves nothing of f.
fc_plotter(f, c) ==
  IF c.full THEN c.y
  ELSE [x \in FC |-> IF c.drawn[x] THEN c.y[x] ELSE f[x]]

\* interpolate(f0_points, f0_points, f0_points + f0_count - 1,
\*             f0_points + f0_count - 1, fc_plotter(), 1.0)
\* for the table f0_points points to.
interpolate(p, f) ==
  fc_plotter(f, IF p = "f0_6581" THEN curve_6581 ELSE curve_8580)

-----------------------------------------------------------------------------
(* Coefficient derivation. *)

\* 2*pi*1.048576 = 6.588397316661..., as an integer part and three limbs of
\* four decimal digits, so that the product stays inside TLC's integers.
w0_scale == <<6, 5883, 9731, 6661>>

\* 2*pi = 6.283185307179..., in the same limbs.
two_pi == <<6, 2831, 8530, 7179>>

\* sound_sample(2*pi*f): the factor 1.048576 left out.
w0_of_unscaled(f) ==
  LET t3 == f * two_pi[4]
      t2 == f * two_pi[3] + t3 \div 10000
      t1 == f * two_pi[2] + t2 \div 10000
  IN  f * two_pi[1] + t1 \div 10000

\* sound_sample(2*pi*f*1.048576): the truncated product.
w0_of(f) ==
  LET t3 == f * w0_scale[4]
      t2 == f * w0_scale[3] + t3 \div 10000
      t1 == f * w0_scale[2] + t2 \div 10000
  IN  f * w0_scale[1] + t1 \div 10000

\* The value set_w0() stores in w0.
set_w0(f, c) == w0_of(f[c])

\* set_Q() with res/0x0f as an integer division: 1024.0/(0.707 + res/0x0f).
set_Q_intdiv(r) == (1024 * 1000) \div (707 + 1000 * (r \div \H0f))

\* The value set_Q() stores in _1024_div_Q:
\* sound_sample(1024.0/(0.707 + 1.0*res/0x0f)), with numerator and
\* denominator scaled by 1000 * 0x0f.
set_Q(r) == (1024 * 1000 * \H0f) \div (707 * \H0f + 1000 * r)

-----------------------------------------------------------------------------
(* The operations. *)

enable_filter(enable) ==
  /\ enabled' = enable
  /\ call' = [op |-> "enable_filter", arg |-> enable]
  /\ UNCHANGED <<variant, regs, Vstate, w0, _1024_div_Q>>

\* set_chip_model() that also clears the registers.
set_chip_model_clearing(model) ==
  /\ IF model = "MOS6581"
       THEN /\ voice_DC' = CDiv(-4095 * 255, 4)
            /\ f0_points' = "f0_6581"
            /\ f0_count' = Len(f0_6581)
       ELSE /\ voice_DC' = 0
            /\ f0_points' = "f0_8580"
            /\ f0_count' = Len(f0_8580)
  /\ f0' = interpolate(f0_points', f0)
  /\ fc' = 0
  /\ res' = 0
  /\ call' = [op |-> "set_chip_model", arg |-> model]
  /\ UNCHANGED <<enabled, filtex, filt3_filt2_filt1, voice3off, hp_bp_lp,
                 vol, Vstate, w0, _1024_div_Q>>

set_chip_model(model) ==
  /\ IF model = "MOS6581"
       THEN /\ voice_DC' = CDiv(-4095 * 255, 4)
            /\ f0_points' = "f0_6581"
            /\ f0_count' = Len(f0_6581)
       ELSE /\ voice_DC' = 0
            /\ f0_points' = "f0_8580"
            /\ f0_count' = Len(f0_8580)
  /\ f0' = interpolate(f0_points', f0)
  /\ call' = [op |-> "set_chip_model", arg |-> model]
  /\ UNCHANGED <<enabled, regs, Vstate, w0, _1024_div_Q>>

\* reset() without its call of set_w0().
reset_without_set_w0 ==
  /\ fc' = 0
  /\ res' = 0
  /\ filtex' = 0
  /\ filt3_filt2_filt1' = 0
  /\ voice3off' = 0
  /\ hp_bp_lp' = 0
  /\ vol' = 0
  /\ Vhp' = 0
  /\ Vbp' = 0
  /\ Vlp' = 0
  /\ Vnf' = 0
  /\ _1024_div_Q' = set_Q(res')
  /\ call' = [op |-> "reset", arg |-> 0]
  /\ UNCHANGED <<enabled, variant, w0>>

reset ==
  /\ fc' = 0
  /\ res' = 0
  /\ filtex' = 0
  /\ filt3_filt2_filt1' = 0
  /\ voice3off' = 0
  /\ hp_bp_lp' = 0
  /\ vol' = 0
  /\ Vhp' = 0
  /\ Vbp' = 0
  /\ Vlp' = 0
  /\ Vnf' = 0
  /\ w0' = set_w0(f0, fc')
  /\ _1024_div_Q' = set_Q(res')
  /\ call' = [op |-> "reset", arg |-> 0]
  /\ UNCHANGED <<enabled, variant>>

writeFC_LO(fc_lo) ==
  /\ fc' = Or(And(fc, \H7f8), And(fc_lo, \H007))
  /\ w0' = set_w0(f0, fc')
  /\ call' = [op |-> "writeFC_LO", arg |-> fc_lo]
  /\ UNCHANGED <<enabled, variant, res, filtex, filt3_filt2_filt1,
                 voice3off, hp_bp_lp, vol, Vstate, _1024_div_Q>>

\* writeFC_HI() without the shift: fc = fc_hi & 0x7f8 | fc & 0x007.
writeFC_HI_unshifted(fc_hi) ==
  /\ fc' = Or(And(fc_hi, \H7f8), And(fc, \H007))
  /\ w0' = set_w0(f0, fc')
  /\ call' = [op |-> "writeFC_HI", arg |-> fc_hi]
  /\ UNCHANGED <<enabled, variant, res, filtex, filt3_filt2_filt1,
                 voice3off, hp_bp_lp, vol, Vstate, _1024_div_Q>>

writeFC_HI(fc_hi) ==
  /\ fc' = Or(And(Shl(fc_hi, 3), \H7f8), And(fc, \H007))
  /\ w0' = set_w0(f0, fc')
  /\ call' = [op |-> "writeFC_HI", arg |-> fc_hi]
  /\ UNCHANGED <<enabled, variant, res, filtex, filt3_filt2_filt1,
                 voice3off, hp_bp_lp, vol, Vstate, _1024_div_Q>>

\* writeRES_FILT() without the mask on res: res = res_filt >> 4.
writeRES_FILT_unmasked(res_filt) ==
  /\ res' = Shr(res_filt, 4)
  /\ _1024_div_Q' = set_Q(res')
  /\ filtex' = And(res_filt, \H08)
  /\ filt3_filt2_filt1' = And(res_filt, \H07)
  /\ call' = [op |-> "writeRES_FILT", arg |-> res_filt]
  /\ UNCHANGED <<enabled, variant, fc, voice3off, hp_bp_lp, vol, Vstate, w0>>

\* writeRES_FILT() calling set_Q() before it assigns res.
writeRES_FILT_early_set_Q(res_filt) ==
  /\ _1024_div_Q' = set_Q(res)
  /\ res' = And(Shr(res_filt, 4), \H0f)
  /\ filtex' = And(res_filt, \H08)
  /\ filt3_filt2_filt1' = And(res_filt, \H07)
  /\ call' = [op |-> "writeRES_FILT", arg |-> res_filt]
  /\ UNCHANGED <<enabled, variant, fc, voice3off, hp_bp_lp, vol, Vstate, w0>>

writeRES_FILT(res_filt) ==
  /\ res' = And(Shr(res_filt, 4), \H0f)
  /\ _1024_div_Q' = set_Q(res')
  /\ filtex' = And(res_filt, \H08)
  /\ filt3_filt2_filt1' = And(res_filt, \H07)
  /\ call' = [op |-> "writeRES_FILT", arg |-> res_filt]
  /\ UNCHANGED <<enabled, variant, fc, voice3off, hp_bp_lp, vol, Vstate, w0>>

\* writeMODE_VOL() without the mask on hp_bp_lp: hp_bp_lp = mode_vol >> 4.
writeMODE_VOL_unmasked(mode_vol) ==
  /\ voice3off' = And(mode_vol, \H80)
  /\ hp_bp_lp' = Shr(mode_vol, 4)
  /\ vol' = And(mode_vol, \H0f)
  /\ call' = [op |-> "writeMODE_VOL", arg |-> mode_vol]
  /\ UNCHANGED <<enabled, variant, fc, res, filtex, filt3_filt2_filt1,
                 Vstate, w0, _1024_div_Q>>

writeMODE_VOL(mode_vol) ==
  /\ voice3off' = And(mode_vol, \H80)
  /\ hp_bp_lp' = And(Shr(mode_vol, 4), \H07)
  /\ vol' = And(mode_vol, \H0f)
  /\ call' = [op |-> "writeMODE_VOL", arg |-> mode_vol]
  /\ UNCHANGED <<enabled, variant, fc, res, filtex, filt3_filt2_filt1,
                 Vstate, w0, _1024_div_Q>>

\* The per-sample filter update, which leaves samples in the filter state.
clock(v) ==
  /\ Vhp' = v
  /\ Vbp' = v
  /\ Vlp' = v
  /\ Vnf' = v
  /\ call' = [op |-> "clock", arg |-> v]
  /\ UNCHANGED <<enabled, variant, regs, w0, _1024_div_Q>>

\* The sequences of interpolation points a caller hands to
\* interpolate(p, p, p + n - 1, p + n - 1, filter.fc_plotter()).
user_points ==
  [well_formed    |-> << <<0, 100>>, <<1024, 3000>>, <<2047, 5000>> >>,
   first_not_0    |-> << <<1024, 300>>, <<2047, 900>> >>,
   last_not_2047  |-> << <<0, 10>>, <<1000, 2000>> >>,
   not_monotonic  |-> << <<0, 50>>, <<1024, 700>>, <<512, 60>>, <<2047, 80>> >>,
   one_point      |-> << <<0, 10>> >>]

user_curve ==
  [well_formed    |-> curve(user_points.well_formed),
   first_not_0    |-> curve(user_points.first_not_0),
   last_not_2047  |-> curve(user_points.last_not_2047),
   not_monotonic  |-> curve(user_points.not_monotonic),
   one_point      |-> curve(user_points.one_point)]

\* A caller specifying a new FC mapping through fc_plotter().  Nothing of
\* the filter but f0 is written: fc_plotter() hands out the table itself.
fc_plot(t) ==
  /\ f0' = fc_plotter(f0, user_curve[t])
  /\ call' = [op |-> "fc_plotter", arg |-> t]
  /\ UNCHANGED <<enabled, voice_DC, f0_points, f0_count, regs, Vstate,
                 w0, _1024_div_Q>>

-----------------------------------------------------------------------------
(* The state after Filter::Filter(): enable_filter(true),                   *)
(* set_chip_model(MOS6581), reset().  The table is written in full by the   *)
(* first expansion, so what f0 held before does not show.                   *)

Init ==
  /\ enabled = TRUE
  /\ voice_DC = CDiv(-4095 * 255, 4)
  /\ f0_points = "f0_6581"
  /\ f0_count = Len(f0_6581)
  /\ f0 = interpolate("f0_6581", [x \in FC |-> 0])
  /\ fc = 0
  /\ res = 0
  /\ filtex = 0
  /\ filt3_filt2_filt1 = 0
  /\ voice3off = 0
  /\ hp_bp_lp = 0
  /\ vol = 0
  /\ Vhp = 0
  /\ Vbp = 0
  /\ Vlp = 0
  /\ Vnf = 0
  /\ w0 = set_w0(f0, fc)
  /\ _1024_div_Q = set_Q(res)
  /\ call = [op |-> "Filter", arg |-> 0]

\* The register write arguments of the specification Spec.
Args == {0, 127, 128, MaxArg}

Samples == 1 .. MaxSample

Next ==
  \/ \E enable \in BOOLEAN : enable_filter(enable)
  \/ \E model \in chip_model : set_chip_model(model)
  \/ reset
  \/ \E fc_lo \in Args : writeFC_LO(fc_lo)
  \/ \E fc_hi \in Args : writeFC_HI(fc_hi)
  \/ \E res_filt \in Args : writeRES_FILT(res_filt)
  \/ \E mode_vol \in Args : writeMODE_VOL(mode_vol)
  \/ \E v \in Samples : clock(v)

Spec == Init /\ [][Next]_vars

-----------------------------------------------------------------------------
(* The cutoff registers alone, over more argument patterns. *)

FCArgs == {0, 1, 5, 42, 85, 127, 128, 165, 170, 254, 256, MaxArg}

NextFC ==
  \/ \E fc_lo \in FCArgs : writeFC_LO(fc_lo)
  \/ \E fc_hi \in FCArgs : writeFC_HI(fc_hi)
  \/ \E model \in chip_model : set_chip_model(model)
  \/ reset

SpecFC == Init /\ [][NextFC]_vars

-----------------------------------------------------------------------------
(* The resonance register alone, over every argument. *)

NextQ ==
  \/ \E res_filt \in 0 .. MaxArg : writeRES_FILT(res_filt)
  \/ reset

SpecQ == Init /\ [][NextQ]_vars

-----------------------------------------------------------------------------
(* A caller that also specifies new FC mappings. *)

PlotArgs == {0, 128}

NextPlot ==
  \/ \E t \in DOMAIN user_points : fc_plot(t)
  \/ \E model \in chip_model : set_chip_model(model)
  \/ \E fc_hi \in PlotArgs : writeFC_HI(fc_hi)
  \/ reset

SpecPlot == Init /\ [][NextPlot]_vars

-----------------------------------------------------------------------------
(* The properties.  call holds the operation that led to the state, so     *)
(* call'.op names the operation a step performs and call.op the one before. *)

\* Bit n of b.
Bit(b, n) == (b \div Pow2(n)) % 2

\* ((hi << 3) & 0x7f8) | (lo & 0x007), by arithmetic.
Compose(hi, lo) == ((hi % 256) * 8) + (lo % 8)

\* C1: reset() after any sequence of register writes, enable_filter and
\* set_chip_model calls clears fc, res, vol, filtex, filt3_filt2_filt1,
\* voice3off, hp_bp_lp and Vhp, Vbp, Vlp, Vnf, leaves the selected variant
\* (f0_points, f0_count, voice_DC, f0) as it was, and leaves w0 and
\* _1024_div_Q at the values of a freshly configured filter of that variant:
\* those of code 0 (220 Hz on the MOS6581, 0 Hz on the MOS8580) and
\* resonance 0.
C1_Reset ==
  [][call'.op = "reset" =>
       /\ regs' = <<0, 0, 0, 0, 0, 0, 0>>
       /\ Vstate' = <<0, 0, 0, 0>>
       /\ variant' = variant
       /\ f0_points' = "f0_6581" => w0' = 1449 /\ f0'[0] = f0_6581[1][2]
       /\ f0_points' = "f0_8580" => w0' = 0 /\ f0'[0] = f0_8580[1][2]
       /\ _1024_div_Q' = 1448]_vars

\* C1 witness: a reset of a disabled MOS8580 filter.
C1_Witness ==
  /\ call.op = "reset"
  /\ f0_points = "f0_8580"
  /\ enabled = FALSE
  /\ w0 = 0
  /\ fc = 0

\* C2: after every public operation of a constructed filter, w0 is the
\* value derived from f0[fc] of the table now in place and _1024_div_Q the
\* value derived from res; a variant change in particular re-derives both.
C2_CoefficientsDerived ==
  /\ w0 = set_w0(f0, fc)
  /\ _1024_div_Q = set_Q(res)

\* C3: the cutoff code is composed independently of the order of the two
\* writes: writeFC_LO(lo) then writeFC_HI(hi), and writeFC_HI(hi) then
\* writeFC_LO(lo), both end with fc = ((hi << 3) & 0x7f8) | (lo & 0x007) and
\* with w0 derived from f0 at that code; one writeFC_LO replaces bits 0-2 and
\* keeps bits 3-10, one writeFC_HI replaces bits 3-10 and keeps bits 0-2, and
\* a write repeated with the same value changes nothing.
C3_FieldComposition ==
  [][/\ (call.op = "writeFC_LO" /\ call'.op = "writeFC_HI") =>
          /\ fc' = Compose(call'.arg, call.arg)
          /\ w0' = w0_of(f0[Compose(call'.arg, call.arg)])
     /\ (call.op = "writeFC_HI" /\ call'.op = "writeFC_LO") =>
          /\ fc' = Compose(call.arg, call'.arg)
          /\ w0' = w0_of(f0[Compose(call.arg, call'.arg)])
     /\ call'.op = "writeFC_LO" =>
          /\ fc' % 8 = call'.arg % 8
          /\ fc' \div 8 = fc \div 8
     /\ call'.op = "writeFC_HI" =>
          /\ fc' \div 8 = call'.arg % 256
          /\ fc' % 8 = fc % 8
     /\ (/\ call'.op \in {"writeFC_LO", "writeFC_HI"}
         /\ call'.op = call.op
         /\ call'.arg = call.arg) =>
          /\ fc' = fc
          /\ w0' = w0
          /\ f0' = f0]_vars

\* C3 witness: a high byte written over a cutoff code whose low bits are set.
C3_Witness ==
  /\ call.op = "writeFC_HI"
  /\ call.arg = 165
  /\ fc = Compose(165, 5)
  /\ w0 = w0_of(f0[1325])

\* C4: in every state reachable by register writes, resets and variant
\* changes, with arguments of any width, fc is in 0..2047, res and vol in
\* 0..15, hp_bp_lp and filt3_filt2_filt1 in 0..7, and so the entry f0[fc]
\* that set_w0 reads is inside the table of 2048 entries.
C4_Ranges ==
  /\ fc \in 0 .. 2047
  /\ res \in 0 .. 15
  /\ vol \in 0 .. 15
  /\ hp_bp_lp \in 0 .. 7
  /\ filt3_filt2_filt1 \in 0 .. 7
  /\ DOMAIN f0 = 0 .. 2047
  /\ fc \in DOMAIN f0

\* C4 witness: every field at its maximum, after a write wider than 8 bits.
C4_Witness ==
  /\ call.op \in {"writeFC_LO", "writeFC_HI", "writeRES_FILT", "writeMODE_VOL"}
  /\ call.arg > 255
  /\ fc = 2047
  /\ res = 15
  /\ vol = 15
  /\ hp_bp_lp = 7
  /\ filt3_filt2_filt1 = 7

\* The requirements on a sequence of interpolation points: at least two
\* points, FC not decreasing, first FC 0 and last FC 2047.
WellFormed(points) ==
  /\ Len(points) >= 2
  /\ \A i \in 1 .. Len(points) - 1 : points[i][1] <= points[i + 1][1]
  /\ points[1][1] = 0
  /\ points[Len(points)][1] = 2047

\* C5: a malformed sequence of interpolation points handed to the curve
\* expansion through fc_plotter() is rejected, and the table f0 in use stays
\* as it was.
C5_MalformedRejected ==
  [][(call'.op = "fc_plotter" /\ ~WellFormed(user_points[call'.arg])) =>
       f0' = f0]_vars

\* C6: for every res in 0..15, _1024_div_Q is the truncation of
\* 1024/(0.707 + res/15), that is floor(15360000/(10605 + 1000*res)); it is
\* positive, 1448 at res = 0 and about 600 at res = 15, and it is smaller
\* after every write that raises res.
C6_Resonance ==
  /\ [](/\ res \in 0 .. 15
        /\ _1024_div_Q = 15360000 \div (10605 + 1000 * res)
        /\ _1024_div_Q > 0
        /\ res = 0 => _1024_div_Q = 1448
        /\ res = 15 => _1024_div_Q \in 599 .. 601)
  /\ [][res' > res => _1024_div_Q' < _1024_div_Q]_vars

\* C6 witness: full resonance written.
C6_Witness ==
  /\ call.op = "writeRES_FILT"
  /\ res = 15
  /\ _1024_div_Q = 599

\* C7: with the MOS6581 selected, f0[1023] = 6000 and f0[1024] = 4600, so a
\* cutoff write that ends at code 1023 leaves w0 = trunc(2*pi*6000*1.048576)
\* = 39530 and one that ends at code 1024 leaves the smaller
\* w0 = trunc(2*pi*4600*1.048576) = 30306; the step from FC 1023 to FC 1024
\* is the only place where the frequencies of f0_6581 decrease, and those of
\* f0_8580 never decrease.
C7_DownwardJump ==
  /\ f0_points = "f0_6581" => f0[1023] = 6000 /\ f0[1024] = 4600
  /\ (/\ f0_points = "f0_6581"
      /\ call.op \in {"writeFC_LO", "writeFC_HI"}) =>
        /\ fc = 1023 => w0 = 39530
        /\ fc = 1024 => w0 = 30306
  /\ \A i \in 1 .. Len(f0_6581) - 1 :
       f0_6581[i + 1][2] < f0_6581[i][2]
         <=> (f0_6581[i][1] = 1023 /\ f0_6581[i + 1][1] = 1024)
  /\ \A i \in 1 .. Len(f0_8580) - 1 : f0_8580[i + 1][2] >= f0_8580[i][2]

\* C7 witness: the MOS6581 at code 1024, just after the jump.
C7_Witness ==
  /\ f0_points = "f0_6581"
  /\ call.op = "writeFC_HI"
  /\ fc = 1024
  /\ w0 = 30306
  /\ w0 < 39530

\* C8: writeRES_FILT(b) sets res to bits 4-7 of b, filtex to bit 3 of b
\* (nonzero iff the bit is set) and filt3_filt2_filt1 to bits 0-2, re-derives
\* _1024_div_Q from the new res, and leaves fc, w0, voice3off, hp_bp_lp and
\* vol as they were.
C8_ResFilt ==
  [][call'.op = "writeRES_FILT" =>
       /\ res' = (call'.arg \div 16) % 16
       /\ filtex' = 8 * Bit(call'.arg, 3)
       /\ filt3_filt2_filt1' = call'.arg % 8
       /\ _1024_div_Q' = 15360000 \div (10605 + 1000 * res')
       /\ UNCHANGED <<fc, w0, voice3off, hp_bp_lp, vol>>]_vars

\* C8 witness: a resonance write that lowers res between other settings.
C8_Witness ==
  /\ call.op = "writeRES_FILT"
  /\ call.arg = 127
  /\ res = 7
  /\ filtex = 8
  /\ filt3_filt2_filt1 = 7
  /\ _1024_div_Q = 872
  /\ fc = 1024
  /\ vol = 15

\* C9: writeMODE_VOL(b) sets voice3off to bit 7 of b (nonzero iff the bit is
\* set), hp_bp_lp to bits 4-6 and vol to bits 0-3, and leaves fc, res,
\* filtex, filt3_filt2_filt1, w0, _1024_div_Q, the table f0 and the chip
\* variant as they were.
C9_ModeVol ==
  [][call'.op = "writeMODE_VOL" =>
       /\ voice3off' = 128 * Bit(call'.arg, 7)
       /\ hp_bp_lp' = (call'.arg \div 16) % 8
       /\ vol' = call'.arg % 16
       /\ UNCHANGED <<fc, res, filtex, filt3_filt2_filt1, w0, _1024_div_Q,
                      f0, f0_points, f0_count, voice_DC>>]_vars

\* C9 witness: a mode/volume write on a filter with cutoff and resonance set.
C9_Witness ==
  /\ call.op = "writeMODE_VOL"
  /\ call.arg = 128
  /\ voice3off = 128
  /\ hp_bp_lp = 0
  /\ vol = 0
  /\ fc = 1023
  /\ res = 15
  /\ f0_points = "f0_8580"

\* C10: set_chip_model(m) leaves fc, res, filtex, filt3_filt2_filt1,
\* voice3off, hp_bp_lp, vol, enabled and Vhp, Vbp, Vlp, Vnf as they were and
\* changes only the table of points in use (f0_points, f0_count), the
\* rebuilt table f0 and voice_DC, which becomes -4095*255/4 (-261056 in
\* integer arithmetic) for the MOS6581 and 0 for the MOS8580.
C10_VariantChange ==
  [][call'.op = "set_chip_model" =>
       /\ UNCHANGED <<regs, enabled, Vstate, w0, _1024_div_Q>>
       /\ call'.arg = "MOS6581" =>
            /\ voice_DC' = -261056
            /\ f0_points' = "f0_6581"
            /\ f0_count' = 29
       /\ call'.arg = "MOS8580" =>
            /\ voice_DC' = 0
            /\ f0_points' = "f0_8580"
            /\ f0_count' = 17]_vars

\* C10 witness: a change to the MOS8580 on a disabled filter with registers
\* and filter state set.
C10_Witness ==
  /\ call.op = "set_chip_model"
  /\ call.arg = "MOS8580"
  /\ voice_DC = 0
  /\ fc = 1024
  /\ res = 15
  /\ vol = 15
  /\ Vhp = 1
  /\ enabled = FALSE

====
